---- MODULE Spec2Model ----
(***************************************************************************)
(* The DHCPv4 client session of agile-dhcp (package dhcp4, type Conn).     *)
(*                                                                         *)
(* Two threads are modelled: the caller (NewDHCPRequest, then Discovery,   *)
(* Decline or Release, then WaitDone or Close) and the goroutine           *)
(* listenUDP that the constructor starts.  A datagram the goroutine reads  *)
(* is held in inbox until handlerResponse has run on it.                   *)
(***************************************************************************)
EXTENDS Integers, Sequences, FiniteSets, TLC

(* ---- MessageType (iota + 1) ------------------------------------------- *)
MessageTypeDiscover == 1
MessageTypeOffer == 2
MessageTypeRequest == 3
MessageTypeDecline == 4
MessageTypeAck == 5
MessageTypeNak == 6
MessageTypeRelease == 7

(* const MaxRetryNum = 1 *)
MaxRetryNum == 1

(* conn.SetReadDeadline(now.Add(time.Second * 3)), counted in seconds *)
ReadDeadlineSecs == 3

(* SecondsElapsed is a uint16 *)
Uint16Mod == 65536

(* ---- bounds of the model ---------------------------------------------- *)
(* the retry counter is an int that every NAK increments: NAKs stop        *)
(* arriving once it has reached this value                                 *)
MaxNakRun == 2
(* message types a datagram may carry: 0 (no option 53) .. MaxWireType     *)
MaxWireType == 8

(* ---- inputs ----------------------------------------------------------- *)
(* texts given as serverIP: "" selects the broadcast address, the third is *)
(* not an IP literal                                                       *)
ServerTexts == {"", "10.0.0.1", "10.0.0.1:67"}
IPLiterals == {"10.0.0.1", "10.0.0.2", "255.255.255.255",
               "0.0.0.0", "10.0.0.9", "::1"}
(* the IP literals that are IPv6 addresses: To4 gives nil for them         *)
IPv6Literals == {"::1"}
(* texts given as relay: "" for no relay; an IPv6 literal and a text that  *)
(* is no IP literal                                                        *)
RelayTexts == {"", "0.0.0.0", "10.0.0.9", "::1", "bogus"}
(* texts given as mac: the second is not a hardware address                *)
MacTexts == {"00:00:00:00:00:01", "bogus"}
(* the texts net.ParseMAC takes: a 6-byte address and an 8-byte EUI-64     *)
HardwareAddrs == {"00:00:00:00:00:01", "00:00:00:00:00:00:00:01"}
TransactionIDs == {7, 9}
(* source addresses of inbound datagrams                                   *)
SourceAddrs == {[ip |-> "10.0.0.1", port |-> 67],
                [ip |-> "10.0.0.2", port |-> 67]}
OfferSeconds == {0, Uint16Mod - 1}

(* net.ParseIP: nil ("") for a text that is no IP literal                  *)
ParseIP(text) == IF text \in IPLiterals THEN text ELSE "nil"

(* IP.To4: nil for an address that is no IPv4 address                      *)
To4(ip) == IF ip = "nil" \/ ip \in IPv6Literals THEN "nil" ELSE ip

(* net.ParseMAC: nil for a text that is no hardware address                *)
ParseMAC(text) == IF text \in HardwareAddrs THEN text ELSE "nil"

(* make([]byte, 4, 4): the relay address of a session without relay, and   *)
(* the address fields of a message as the builders leave them              *)
ZeroIP == "0.0.0.0"

(* UDPAddr.String(): net.JoinHostPort(ip, port) for an IPv4 address        *)
AddrString(addr) == addr.ip \o ":" \o ToString(addr.port)

(* what the goroutine reads: a datagram on which Message.Decode runs off   *)
(* the end of the buffer (decodes = FALSE), or the fields of the decoded   *)
(* message together with the datagram's source address                     *)
Malformed == [decodes |-> FALSE, xid |-> 0, type |-> 0, secs |-> 0,
              src |-> [ip |-> "10.0.0.2", port |-> 67]]
Datagrams ==
    {Malformed} \cup
    {d \in [decodes : {TRUE}, xid : TransactionIDs, type : 0..MaxWireType,
            secs : OfferSeconds, src : SourceAddrs] :
        /\ (d.type # MessageTypeOffer => d.secs = 0)
        /\ (d.type # MessageTypeNak => d.src.ip = "10.0.0.1")}

NoDatagram == [decodes |-> FALSE, xid |-> 0, type |-> 0, secs |-> 0,
               src |-> [ip |-> "", port |-> 0]]

NoMessage == [type |-> 0, xid |-> 0, secs |-> 0, giaddr |-> ZeroIP]

(* the arguments of NewDHCPRequest before it is called                     *)
NoArgs == [serverIP |-> "", relay |-> "", mac |-> ""]

(* ======================================================================= *)
(* The message codec: bytes are numbers 0..255, a byte slice is a sequence *)
(* of them, a host name is the sequence of its bytes.  An option is the    *)
(* record of its code, its length byte and the bytes it writes after the   *)
(* length byte (for option 61 the hardware type and the identifier).       *)
(* ======================================================================= *)
MinRequestLength == 300

(* the bytes Decode takes before the first option code                     *)
HeaderLength == 240

(* the longest host name given whose length fits the length byte          *)
MaxHostLen == 25

(* the length of a host name that does not fit the length byte             *)
LongHostLen == 257

(* the longest byte slice given to the conversions                         *)
MaxBytesLen == 5

Min(a, b) == IF a < b THEN a ELSE b

(* make([]byte, n, n)                                                      *)
Zeros(n) == [i \in 1..n |-> 0]

Uint16ToBytes(data) == <<(data \div 256) % 256, data % 256>>

Uint32ToBytes(data) ==
    <<(data \div 16777216) % 256, (data \div 65536) % 256,
      (data \div 256) % 256, data % 256>>

(* uint16(data[0]) of a slice without element 0: the index panics         *)
BytesToUint16Panics(data) == Len(data) # 2 /\ data = <<>>

(* of a slice that is not empty                                            *)
BytesToUint16(data) ==
    IF Len(data) # 2 THEN data[1] ELSE data[1] * 256 + data[2]

BytesToUint32(data) ==
    IF Len(data) < 4 THEN 0
    ELSE data[1] * 16777216 + data[2] * 65536 + data[3] * 256 + data[4]

MagicCookie == <<99, 130, 83, 99>>

(* the four bytes of To4 of an IP literal; nil, the empty slice, for nil   *)
IPBytes(ip) ==
    CASE ip = "10.0.0.1" -> <<10, 0, 0, 1>>
      [] ip = "10.0.0.2" -> <<10, 0, 0, 2>>
      [] ip = "10.0.0.9" -> <<10, 0, 0, 9>>
      [] ip = "0.0.0.0" -> <<0, 0, 0, 0>>
      [] ip = "255.255.255.255" -> <<255, 255, 255, 255>>
      [] OTHER -> <<>>

(* the bytes net.ParseMAC gives; nil for a text that is no address         *)
MacBytes(mac) ==
    CASE ParseMAC(mac) = "00:00:00:00:00:01" -> <<0, 0, 0, 0, 0, 1>>
      [] ParseMAC(mac) = "00:00:00:00:00:00:00:01" -> <<0, 0, 0, 0, 0, 0, 0, 1>>
      [] OTHER -> <<>>

(* ---- the options the client builds ------------------------------------- *)
NoOption == [code |-> 0, length |-> 0, value |-> <<>>]

GenOption12(hostName) ==
    [code |-> 12, length |-> Len(hostName) % 256, value |-> hostName]

GenOption50(address) == [code |-> 50, length |-> 4, value |-> address]

GenOption51(t) == [code |-> 51, length |-> 4, value |-> Uint32ToBytes(t)]

GenOption53(c) == [code |-> 53, length |-> 1, value |-> <<c>>]

(* the server identifier option: code, length 4, the four bytes            *)
GenOption54(address) == [code |-> 54, length |-> 4, value |-> address]

GenOption55 ==
    [code |-> 55, length |-> 10,
     value |-> <<1, 3, 6, 15, 46, 108, 114, 119, 121, 252>>]

GenOption57(t) == [code |-> 57, length |-> 2, value |-> Uint16ToBytes(t)]

GenOption61(mac) == [code |-> 61, length |-> 7, value |-> <<1>> \o mac]

GenOption255 == [code |-> 255, length |-> 0, value |-> <<>>]

(* Encode of an option: Option255 writes its code alone                    *)
OptionEncode(o) ==
    IF o.code = 255 THEN <<o.code>> ELSE <<o.code, o.length>> \o o.value

(* ---- the messages the client builds ------------------------------------ *)
(* &Message{}                                                               *)
EmptyMessage ==
    [op |-> 0, htype |-> 0, hlen |-> 0, hops |-> 0, xid |-> 0, secs |-> 0,
     flags |-> 0, ciaddr |-> <<>>, yiaddr |-> <<>>, siaddr |-> <<>>,
     giaddr |-> <<>>, chaddr |-> <<>>, chpad |-> <<>>, sname |-> <<>>,
     file |-> <<>>, cookie |-> <<>>, options |-> <<>>, mtype |-> 0]

(* ClientHardware{} when the text is no address                            *)
GenClientHardware(mac) ==
    IF ParseMAC(mac) = "nil" THEN [addr |-> <<>>, pad |-> <<>>]
    ELSE [addr |-> MacBytes(mac), pad |-> Zeros(10)]

(* the fields the four builders set alike                                  *)
ClientMessage(type, ciaddr, hw, options) ==
    [op |-> 1, htype |-> 1, hlen |-> 6, hops |-> 0, xid |-> 0, secs |-> 0,
     flags |-> 0, ciaddr |-> ciaddr, yiaddr |-> Zeros(4), siaddr |-> Zeros(4),
     giaddr |-> Zeros(4), chaddr |-> hw.addr, chpad |-> hw.pad,
     sname |-> Zeros(64), file |-> Zeros(128), cookie |-> MagicCookie,
     options |-> options, mtype |-> type]

GenDiscoverMessage(mac, options) ==
    ClientMessage(MessageTypeDiscover, Zeros(4), GenClientHardware(mac),
                  <<GenOption53(MessageTypeDiscover), GenOption55>>
                      \o options \o <<GenOption255>>)

GenDeclineMessage(mac, declineIP, options) ==
    ClientMessage(MessageTypeDecline, Zeros(4), GenClientHardware(mac),
                  <<GenOption53(MessageTypeDecline), GenOption55,
                    GenOption50(declineIP)>>
                      \o options \o <<GenOption255>>)

GenReleaseMessage(mac, releaseIP, options) ==
    ClientMessage(MessageTypeRelease, releaseIP, GenClientHardware(mac),
                  <<GenOption53(MessageTypeRelease), GenOption55>>
                      \o options \o <<GenOption255>>)

(* offer.getOption(code): the first option of that code, or none           *)
getOption(offer, code) ==
    LET found == {i \in 1..Len(offer.options) : offer.options[i].code = code}
    IN  IF found = {} THEN <<>>
        ELSE <<offer.options[CHOOSE i \in found : \A j \in found : i <= j]>>

(* a Request that leaves the offer's server identifier out                 *)
GenRequestMessageNoServerId(offer, options) ==
    [ClientMessage(MessageTypeRequest, Zeros(4),
                   [addr |-> offer.chaddr, pad |-> offer.chpad],
                   <<GenOption53(MessageTypeRequest), GenOption55,
                     GenOption50(offer.yiaddr)>>
                       \o options \o getOption(offer, 61) \o <<GenOption255>>)
     EXCEPT !.xid = offer.xid, !.secs = (offer.secs + 1) % Uint16Mod]

(* GenRequestMessage with the options the caller passes                    *)
GenRequestMessageOptions(offer, options) ==
    [ClientMessage(MessageTypeRequest, Zeros(4),
                   [addr |-> offer.chaddr, pad |-> offer.chpad],
                   <<GenOption53(MessageTypeRequest), GenOption55,
                     GenOption50(offer.yiaddr)>>
                       \o options \o getOption(offer, 54)
                       \o getOption(offer, 61) \o <<GenOption255>>)
     EXCEPT !.xid = offer.xid, !.secs = (offer.secs + 1) % Uint16Mod]

(* ---- Message.Encode ---------------------------------------------------- *)
RECURSIVE OptionsEncode(_)
OptionsEncode(options) ==
    IF options = <<>> THEN <<>>
    ELSE OptionEncode(Head(options)) \o OptionsEncode(Tail(options))

(* the header and the options as Encode writes them, before it pads        *)
NaturalEncode(m) ==
    <<m.op, m.htype, m.hlen, m.hops>> \o Uint32ToBytes(m.xid)
        \o Uint16ToBytes(m.secs) \o Uint16ToBytes(m.flags)
        \o m.ciaddr \o m.yiaddr \o m.siaddr \o m.giaddr
        \o m.chaddr \o m.chpad \o m.sname \o m.file \o m.cookie
        \o OptionsEncode(m.options)

(* an Encode that does not pad                                             *)
EncodeUnpadded(m) == NaturalEncode(m)

Encode(m) ==
    LET b == NaturalEncode(m)
    IN  IF Len(b) < MinRequestLength
        THEN b \o Zeros(MinRequestLength - Len(b))
        ELSE b

(* ---- the Decode methods of the options --------------------------------- *)
(* b is the slice the method is given: the length byte and what follows.   *)
(* Option57.Decode does not set Code; Option255.Decode is given the code.  *)
OptionDecode(code, b) ==
    CASE code \in {1, 51, 58, 59, 108} ->
             [code |-> code, length |-> b[1], value |-> Tail(b)]
      [] code = 53 -> [code |-> 53, length |-> b[1], value |-> <<b[2]>>]
      [] code = 54 ->
             [code |-> 54, length |-> b[1],
              value |-> SubSeq(b, 2, Min(5, Len(b)))]
      [] code \in {12, 50} ->
             [code |-> code, length |-> b[1],
              value |-> SubSeq(b, 2, Min(1 + b[1], Len(b)))]
      [] code = 55 -> [code |-> 55, length |-> b[1], value |-> Tail(b)]
      [] code = 57 -> [code |-> 0, length |-> b[1], value |-> Tail(b)]
      [] code = 255 -> [code |-> b[1], length |-> 0, value |-> <<>>]

(* ---- Message.Decode ---------------------------------------------------- *)
(* an index out of range                                                   *)
Panicked == [panic |-> TRUE, options |-> <<>>, mtype |-> 0]

(* the byte at index i of the buffer: zero between the end of the datagram *)
(* and the capacity of the buffer                                          *)
ByteAt(data, i) == IF i <= Len(data) THEN data[i] ELSE 0

(* a default branch that returns without m.Options = options              *)
StoppedEmpty(options, mtype) ==
    [panic |-> FALSE, options |-> <<>>, mtype |-> mtype]

(* the default branch: m.Options = options; return                         *)
Stopped(options, mtype) ==
    [panic |-> FALSE, options |-> options, mtype |-> mtype]

(* The option loop.  pos is the index of the option code buf.Next(1)[0]    *)
(* reads; slack is what the capacity of the buffer exceeds the datagram    *)
(* by, which bounds the slices b[i:i+4] of Option3 and Option6.  Option138 *)
(* is read as option 61 is; its type is not among the sources.             *)
RECURSIVE DecodeOptions(_, _, _, _, _)
DecodeOptions(data, slack, pos, options, mtype) ==
    IF pos > Len(data) THEN Panicked
    ELSE
    LET code == data[pos]
    IN  CASE code \in {1, 51, 54, 58, 59, 108} ->
                 LET b == SubSeq(data, pos + 1, Min(pos + 5, Len(data)))
                 IN  IF b = <<>> THEN Panicked
                     ELSE DecodeOptions(data, slack, pos + 1 + Len(b),
                                        Append(options, OptionDecode(code, b)),
                                        mtype)
          [] code = 53 ->
                 LET b == SubSeq(data, pos + 1, Min(pos + 2, Len(data)))
                 IN  IF Len(b) < 2 THEN Panicked
                     ELSE DecodeOptions(data, slack, pos + 3,
                                        Append(options, OptionDecode(53, b)),
                                        b[2])
          [] code \in {3, 6} ->
                 IF pos + 1 > Len(data) THEN Panicked
                 ELSE
                 LET length == data[pos + 1]
                     taken == Min(length, Len(data) - (pos + 1))
                     read == 4 * ((length + 3) \div 4)
                 IN  IF pos + 1 + read > Len(data) + slack THEN Panicked
                     ELSE DecodeOptions(
                              data, slack, pos + 2 + taken,
                              Append(options,
                                     [code |-> code, length |-> length,
                                      value |-> [i \in 1..read |->
                                                   ByteAt(data, pos + 1 + i)]]),
                              mtype)
          [] code \in {61, 138} ->
                 IF pos + 1 > Len(data) THEN Panicked
                 ELSE
                 LET length == data[pos + 1]
                     b == SubSeq(data, pos + 2, Min(pos + 1 + length, Len(data)))
                 IN  IF b = <<>> THEN Panicked
                     ELSE DecodeOptions(data, slack, pos + 2 + Len(b),
                                        Append(options,
                                               [code |-> code,
                                                length |-> length,
                                                value |-> b]),
                                        mtype)
          [] code = 255 ->
                 DecodeOptions(data, slack, pos + 1,
                               Append(options, OptionDecode(255, <<255>>)),
                               mtype)
          [] OTHER -> Stopped(options, mtype)

(* the reads of the header that index an empty slice: buf.Next(1)[0] of    *)
(* the first four bytes, and BytesToUint16 of SecondsElapsed and of Flags  *)
HeaderPanics(data) ==
    \/ Len(data) < 4
    \/ Len(data) <= 8
    \/ Len(data) <= 10

(* Decode on a fresh Message: the panic, or the message                    *)
Decode(data, slack) ==
    IF HeaderPanics(data) THEN [panic |-> TRUE, m |-> EmptyMessage]
    ELSE
    LET o == DecodeOptions(data, slack, HeaderLength + 1, <<>>, 0)
    IN  IF o.panic THEN [panic |-> TRUE, m |-> EmptyMessage]
        ELSE [panic |-> FALSE,
              m |->
                 [op |-> data[1], htype |-> data[2], hlen |-> data[3],
                  hops |-> data[4],
                  xid |-> BytesToUint32(SubSeq(data, 5, 8)),
                  secs |-> BytesToUint16(SubSeq(data, 9, 10)),
                  flags |-> BytesToUint16(SubSeq(data, 11, 12)),
                  ciaddr |-> SubSeq(data, 13, 16),
                  yiaddr |-> SubSeq(data, 17, 20),
                  siaddr |-> SubSeq(data, 21, 24),
                  giaddr |-> SubSeq(data, 25, 28),
                  chaddr |-> SubSeq(data, 29, 34),
                  chpad |-> SubSeq(data, 35, 44),
                  sname |-> SubSeq(data, 45, 108),
                  file |-> SubSeq(data, 109, 236),
                  cookie |-> SubSeq(data, 237, 240),
                  options |-> o.options, mtype |-> o.mtype]]

(* ---- what the codec is given ------------------------------------------- *)
(* the host names: none, one byte, two long ones and a very long one       *)
HostNames ==
    {[i \in 1..n |-> 97] :
        n \in {0, 1, MaxHostLen - 2, MaxHostLen, LongHostLen}}

(* Conn.HostName as an option: none when the name is empty                 *)
HostNameOption(hostName) ==
    IF hostName = <<>> THEN <<>> ELSE <<GenOption12(hostName)>>

(* the capacity of the bytes.Buffer over the length of the datagram        *)
CapSlacks == {0, 20}

(* the option lists of the replies a server sends                          *)
ReplyOptionSets ==
    {<<GenOption53(MessageTypeOffer), GenOption54(<<10, 0, 0, 1>>),
       GenOption51(3600), [code |-> 1, length |-> 4,
                           value |-> <<255, 255, 255, 0>>],
       [code |-> 3, length |-> 4, value |-> <<10, 0, 0, 1>>],
       [code |-> 6, length |-> 8, value |-> <<10, 0, 0, 1, 10, 0, 0, 2>>],
       GenOption255>>,
     <<GenOption53(MessageTypeOffer),
       GenOption61(<<0, 0, 0, 0, 0, 1>>), GenOption255>>,
     <<GenOption53(MessageTypeOffer), GenOption61(<<0, 0, 0, 0, 0, 1>>),
       GenOption54(<<10, 0, 0, 1>>),
       [code |-> 58, length |-> 4, value |-> Uint32ToBytes(1800)],
       [code |-> 59, length |-> 4, value |-> Uint32ToBytes(3150)],
       [code |-> 108, length |-> 4, value |-> Uint32ToBytes(0)],
       GenOption255>>,
     <<GenOption53(MessageTypeAck), GenOption54(<<10, 0, 0, 1>>),
       GenOption51(3600), GenOption255>>,
     (* option 12, which Decode has no case for, before option 51          *)
     <<GenOption53(MessageTypeOffer), GenOption54(<<10, 0, 0, 1>>),
       GenOption12(<<97>>), GenOption51(3600), GenOption255>>,
     (* options after option 255                                           *)
     <<GenOption53(MessageTypeOffer), GenOption54(<<10, 0, 0, 1>>),
       GenOption255, GenOption51(3600), GenOption255>>,
     (* an option 51 of two bytes                                          *)
     <<GenOption53(MessageTypeOffer), GenOption54(<<10, 0, 0, 1>>),
       [code |-> 51, length |-> 2, value |-> <<0, 1>>],
       [code |-> 58, length |-> 4, value |-> Uint32ToBytes(1800)],
       GenOption255>>}

(* the lengths of the datagrams that carry such a reply: cut in the        *)
(* header, after the header, in option 53, in the option after it, ended   *)
(* by option 255, and padded to MinRequestLength                           *)
DatagramLens(reply) ==
    {2, 9, 11, HeaderLength, HeaderLength + 2, HeaderLength + 5,
     HeaderLength + Len(OptionsEncode(reply)), MinRequestLength}

(* valid options of every type                                             *)
ValidOptions ==
    {[code |-> 1, length |-> 4, value |-> <<255, 255, 255, 0>>],
     [code |-> 3, length |-> 4, value |-> <<10, 0, 0, 1>>],
     [code |-> 3, length |-> 8, value |-> <<10, 0, 0, 1, 10, 0, 0, 2>>],
     [code |-> 6, length |-> 4, value |-> <<10, 0, 0, 1>>],
     GenOption12(<<97>>), GenOption50(<<10, 0, 0, 2>>), GenOption51(7776000),
     GenOption53(MessageTypeOffer), GenOption53(MessageTypeAck),
     GenOption54(<<10, 0, 0, 1>>), GenOption55, GenOption57(1500),
     [code |-> 58, length |-> 4, value |-> Uint32ToBytes(1800)],
     [code |-> 59, length |-> 4, value |-> Uint32ToBytes(3150)],
     GenOption61(<<0, 0, 0, 0, 0, 1>>),
     [code |-> 108, length |-> 4, value |-> Uint32ToBytes(0)],
     GenOption255}

(* no input: the codec is not exercised                                    *)
NoInput ==
    [kind |-> "none", mac |-> "", hostName |-> <<>>, xid |-> 0, secs |-> 0,
     relay |-> ZeroIP, server |-> "", addr |-> "", reply |-> <<>>,
     len |-> 0, opt |-> NoOption, hw |-> <<>>, data |-> <<>>, num |-> 0]

(* the client hardware address a server puts in its reply: that of the    *)
(* session, or another                                                     *)
ReplyHardware == {<<0, 0, 0, 0, 0, 1>>, <<0, 0, 0, 0, 0, 2>>}

(* a session's configuration and the address it declines or releases       *)
BuilderInputs ==
    {[NoInput EXCEPT !.kind = k, !.mac = mac,
                     !.hostName = h, !.xid = x, !.secs = s, !.relay = r,
                     !.server = sv, !.addr = a] :
        k \in {"discover", "decline", "release"}, mac \in HardwareAddrs,
        h \in HostNames,
        x \in TransactionIDs, s \in OfferSeconds,
        r \in {ZeroIP, "10.0.0.9"}, sv \in {"", "10.0.0.1"},
        a \in {"10.0.0.2", "bogus"}}

(* a datagram that arrives, and the host name of the session it reaches    *)
ReplyInputs ==
    UNION {{[NoInput EXCEPT !.kind = "reply", !.mac = "00:00:00:00:00:01",
                            !.hostName = h, !.xid = x, !.secs = s,
                            !.reply = r, !.len = n, !.hw = w] :
               h \in HostNames, x \in TransactionIDs, s \in OfferSeconds,
               n \in DatagramLens(r), w \in ReplyHardware} :
           r \in ReplyOptionSets}

OptionInputs == {[NoInput EXCEPT !.kind = "option", !.opt = o] : o \in ValidOptions}

(* the byte slices given to BytesToUint16 and BytesToUint32: every length  *)
(* up to MaxBytesLen, low and high bytes                                   *)
ByteSlices ==
    UNION {[1..n -> {1, 127}] : n \in 0..MaxBytesLen}
        \cup {<<255>>, <<255, 254>>, <<0, 255, 254>>, <<0, 255, 254, 253>>}

(* the values given to Uint16ToBytes and to Uint32ToBytes                  *)
Uint16Values == {0, 1, 255, 256, 4660, Uint16Mod - 1}
Uint32Values == {0, 1, 255, 256, Uint16Mod - 1, Uint16Mod, 16777216,
                 305419896, 2147483647}

ConversionInputs ==
    {[NoInput EXCEPT !.kind = "bytes", !.data = d] : d \in ByteSlices}
        \cup {[NoInput EXCEPT !.kind = "uint16", !.num = n] : n \in Uint16Values}
        \cup {[NoInput EXCEPT !.kind = "uint32", !.num = n] : n \in Uint32Values}

CodecInputs ==
    BuilderInputs \cup ReplyInputs \cup OptionInputs \cup ConversionInputs

(* the message Discovery writes                                            *)
DiscoveryMessage(c) ==
    [GenDiscoverMessage(c.mac,
                        <<GenOption51(7776000), GenOption57(1500),
                          GenOption61(MacBytes(c.mac))>>
                            \o HostNameOption(c.hostName))
     EXCEPT !.xid = c.xid, !.secs = c.secs, !.giaddr = IPBytes(c.relay)]

(* the message Decline writes: server is ParseIP of DhcpServerHost         *)
DeclineMessage(c) ==
    [GenDeclineMessage(c.mac, IPBytes(To4(ParseIP(c.addr))),
                       <<GenOption54(IPBytes(To4(ParseIP(c.server)))),
                         GenOption57(1500), GenOption61(MacBytes(c.mac))>>
                           \o HostNameOption(c.hostName))
     EXCEPT !.xid = c.xid, !.secs = c.secs, !.giaddr = IPBytes(c.relay)]

(* the message Release writes                                              *)
ReleaseMessage(c) ==
    [GenReleaseMessage(c.mac, IPBytes(To4(ParseIP(c.addr))),
                       <<GenOption54(IPBytes(To4(ParseIP(c.server)))),
                         GenOption57(1500), GenOption61(MacBytes(c.mac))>>
                           \o HostNameOption(c.hostName))
     EXCEPT !.xid = c.xid, !.secs = c.secs, !.giaddr = IPBytes(c.relay)]

(* the Request handlerResponse writes on an Offer                          *)
RequestMessage(offer, c) ==
    [GenRequestMessageOptions(offer,
                              <<GenOption57(1500), GenOption51(7776000)>>
                                  \o HostNameOption(c.hostName))
     EXCEPT !.giaddr = IPBytes(c.relay)]

(* the reply as the server holds it                                        *)
ReplyMessage(c) ==
    [op |-> 2, htype |-> 1, hlen |-> 6, hops |-> 0, xid |-> c.xid,
     secs |-> c.secs, flags |-> 0, ciaddr |-> Zeros(4),
     yiaddr |-> <<10, 0, 0, 2>>, siaddr |-> <<10, 0, 0, 1>>,
     giaddr |-> Zeros(4), chaddr |-> c.hw, chpad |-> Zeros(10),
     sname |-> Zeros(64), file |-> Zeros(128), cookie |-> MagicCookie,
     options |-> c.reply, mtype |-> c.reply[1].value[1]]

(* data[:length] as ReadFromUDP gives it                                   *)
ReplyDatagram(c) ==
    LET data == Encode(ReplyMessage(c))
    IN  SubSeq(data, 1, Min(c.len, Len(data)))

(* nothing decoded yet                                                     *)
NoDecode == [panic |-> FALSE, m |-> EmptyMessage]
NoOptions == [panic |-> FALSE, options |-> <<>>, mtype |-> 0]

(* nothing converted yet                                                   *)
NoConv == [panic |-> FALSE, u16 |-> 0, u32 |-> 0, bytes |-> <<>>]

VARIABLES
    cpc,                 \* the caller's position
    outMsg,              \* the message m the caller built and has yet to write
    lpc,                 \* the position of the goroutine listenUDP
    requestMsg,          \* the message handlerResponse has built and has yet
                         \* to write
    TransactionID,       \* Conn.TransactionID
    SecondsElapsed,      \* Conn.SecondsElapsed
    DhcpServerHost,      \* Conn.DhcpServerHost
    CurrentMessageType,  \* Conn.CurrentMessageType (0: nothing sent yet)
    retry,               \* Conn.retry
    uconn,               \* Conn.UDPConn, the dialled socket
    lconn,               \* the socket listenUDP listens on
    timer,               \* seconds since the read deadline was last set
    inbox,               \* the datagram ReadFromUDP returned
    sent,                \* log of the Write calls on Conn.UDPConn
    signals,             \* values received from doneChan
    gotOwn,              \* a datagram with the session's TransactionID was read
    gotOther,            \* a decodable datagram with another TransactionID was read
    args,                \* the arguments NewDHCPRequest was called with
    newErr,              \* the error NewDHCPRequest returned ("": none)
    relay,               \* Conn.relay
    lport,               \* the port listenUDP asked for (0: none yet)
    nextListen,          \* net.ListenUDP of the session main starts next
    lastErr,             \* the ReadFromUDP error the loop has gone on after
    cin,                 \* what the codec is given
    cstep,               \* how far the codec has worked on it
    cmsg,                \* the message a builder made
    wire,                \* the bytes encoded, or the datagram received
    decoded,             \* the outcome of Message.Decode on wire
    optDecoded,          \* the outcome of the option loop on an option
    optDirect,           \* the outcome of the option's own Decode
    conv                 \* the outcome of the byte and integer conversions

sessionVars ==
    <<cpc, outMsg, lpc, TransactionID, SecondsElapsed, DhcpServerHost,
      CurrentMessageType, retry, uconn, lconn, timer, inbox, sent,
      signals, gotOwn, gotOther, args, newErr, relay, lport, nextListen,
      lastErr, requestMsg>>

codecVars == <<cin, cstep, cmsg, wire, decoded, optDecoded, optDirect,
               conv>>

vars == <<sessionVars, codecVars>>

(* the session before NewDHCPRequest is called                             *)
SessionStart ==
    /\ cpc = "start"
    /\ outMsg = NoMessage
    /\ lpc = "none"
    /\ TransactionID = 0
    /\ SecondsElapsed = 0
    /\ DhcpServerHost = ""
    /\ CurrentMessageType = 0
    /\ retry = 0
    /\ uconn = "nil"
    /\ lconn = "nil"
    /\ timer = 0
    /\ inbox = NoDatagram
    /\ sent = <<>>
    /\ signals = 0
    /\ gotOwn = FALSE
    /\ gotOther = FALSE
    /\ args = NoArgs
    /\ newErr = ""
    /\ relay = ZeroIP
    /\ lport = 0
    /\ nextListen = "none"
    /\ lastErr = ""
    /\ requestMsg = NoMessage

Init ==
    /\ SessionStart
    /\ cin = NoInput
    /\ cstep = "idle"
    /\ cmsg = EmptyMessage
    /\ wire = <<>>
    /\ decoded = NoDecode
    /\ optDecoded = NoOptions
    /\ optDirect = NoOption
    /\ conv = NoConv

(* the process is running: a panic in the goroutine ends it                *)
Running == lpc # "panic"

(* ---- NewDHCPRequest ---------------------------------------------------- *)
(* serverIP is kept as given in DhcpServerHost; "" is dialled as the       *)
(* broadcast address.  xid: RandomTransactionID(); en0:                    *)
(* net.InterfaceByName("en0") succeeds; dial: net.DialUDP succeeds.        *)
ServerAddress(serverIP) ==
    ParseIP(IF serverIP = "" THEN "255.255.255.255" ELSE serverIP)

(* a constructor that takes any relay text                                 *)
NewErrorAnyRelay(serverIP, relayText, mac, en0, dial) ==
    IF ParseMAC(mac) = "nil" THEN "mac"
    ELSE IF ~en0 THEN "en0"
    ELSE IF ServerAddress(serverIP) = "nil" THEN "server"
    ELSE IF ~dial THEN "dial"
    ELSE ""

(* the error NewDHCPRequest returns, "" for none: the checks in the order  *)
(* of the code.  en0: net.InterfaceByName("en0") succeeds; dial:           *)
(* net.DialUDP succeeds.                                                   *)
NewError(serverIP, relayText, mac, en0, dial) ==
    IF ParseMAC(mac) = "nil" THEN "mac"
    ELSE IF ~en0 THEN "en0"
    ELSE IF relayText # "" /\ To4(ParseIP(relayText)) = "nil" THEN "relay"
    ELSE IF ServerAddress(serverIP) = "nil" THEN "server"
    ELSE IF ~dial THEN "dial"
    ELSE ""

(* c.relay: four zero bytes, or addr.To4() of a relay text that is given   *)
RelayOf(relayText) == IF relayText = "" THEN ZeroIP ELSE To4(ParseIP(relayText))

NewDHCPRequest ==
    /\ cpc = "start"
    /\ \E serverIP \in ServerTexts, relayText \in RelayTexts, mac \in MacTexts,
          xid \in TransactionIDs, en0 \in BOOLEAN, dial \in BOOLEAN :
          /\ args' = [serverIP |-> serverIP, relay |-> relayText, mac |-> mac]
          /\ newErr' = NewError(serverIP, relayText, mac, en0, dial)
          /\ IF newErr' = ""
             THEN /\ cpc' = "created"
                  /\ DhcpServerHost' = serverIP
                  /\ TransactionID' = xid
                  /\ relay' = RelayOf(relayText)
                  /\ uconn' = "open"
                  /\ lpc' = "listen"
             ELSE /\ cpc' = "newFailed"
                  /\ UNCHANGED <<DhcpServerHost, TransactionID, relay, uconn,
                                 lpc>>
    /\ UNCHANGED <<outMsg, SecondsElapsed, CurrentMessageType, retry, lconn,
                   timer, inbox, sent, signals, gotOwn, gotOther, lport,
                   nextListen, lastErr>>
    /\ UNCHANGED requestMsg
    /\ UNCHANGED codecVars

(* ---- the messages the session writes ---------------------------------- *)
(* A Write call: the message and whether the write succeeded               *)
Written(m, wok) ==
    [type |-> m.type, xid |-> m.xid, secs |-> m.secs, giaddr |-> m.giaddr,
     ok |-> wok]

(* a session that leaves RelayAgentIP as the builder made it               *)
SessionRelayUnset == ZeroIP

(* m.RelayAgentIP = c.relay                                                *)
SessionRelay == relay

(* a session message that keeps the builder's zero TransactionID           *)
GenSessionMessageNoXid(type) ==
    [type |-> type, xid |-> 0, secs |-> SecondsElapsed,
     giaddr |-> SessionRelay]

(* GenDiscoverMessage, GenDeclineMessage, GenReleaseMessage as the session *)
(* completes them: the session's TransactionID, SecondsElapsed and relay   *)
GenSessionMessage(type) ==
    [type |-> type, xid |-> TransactionID, secs |-> SecondsElapsed,
     giaddr |-> SessionRelay]

(* a Request with the zero TransactionID of the other builders             *)
GenRequestMessageNoXid(offer) ==
    [type |-> MessageTypeRequest, xid |-> 0,
     secs |-> (offer.secs + 1) % Uint16Mod, giaddr |-> ZeroIP]

(* GenRequestMessage(offer): the offer's TransactionID, SecondsElapsed + 1 *)
(* and a zero RelayAgentIP                                                 *)
GenRequestMessage(offer) ==
    [type |-> MessageTypeRequest, xid |-> offer.xid,
     secs |-> (offer.secs + 1) % Uint16Mod, giaddr |-> ZeroIP]

(* outcomes of c.Write: it fails on a closed socket, and may fail on an    *)
(* open one                                                                *)
WriteOutcomes == IF uconn = "open" THEN BOOLEAN ELSE {FALSE}

(* ---- the caller: Discovery, Decline, Release --------------------------- *)
(* each builds its message m from the session's TransactionID and          *)
(* SecondsElapsed, assigns c.CurrentMessageType = m.MessageType, and then  *)
(* writes m                                                                *)
CallerBuild(type) ==
    /\ Running
    /\ cpc = "created"
    /\ cpc' = "writing"
    /\ outMsg' = GenSessionMessage(type)
    /\ CurrentMessageType' = type
    /\ UNCHANGED <<lpc, TransactionID, SecondsElapsed, DhcpServerHost, retry,
                   uconn, lconn, timer, inbox, sent, signals, gotOwn, gotOther>>
    /\ UNCHANGED <<args, newErr, relay, lport, nextListen, lastErr>>
    /\ UNCHANGED requestMsg
    /\ UNCHANGED codecVars

Discovery == CallerBuild(MessageTypeDiscover)
Decline == CallerBuild(MessageTypeDecline)
Release == CallerBuild(MessageTypeRelease)

(* the c.Write(m.Encode()) that ends Discovery, Decline and Release        *)
CallerWrite ==
    /\ Running
    /\ cpc = "writing"
    /\ \E wok \in WriteOutcomes :
          /\ sent' = Append(sent, Written(outMsg, wok))
          /\ cpc' = IF wok THEN "sent" ELSE "sendFailed"
    /\ outMsg' = NoMessage
    /\ UNCHANGED <<lpc, TransactionID, SecondsElapsed, DhcpServerHost,
                   CurrentMessageType, retry, uconn, lconn, timer, inbox,
                   signals, gotOwn, gotOther>>
    /\ UNCHANGED <<args, newErr, relay, lport, nextListen, lastErr>>
    /\ UNCHANGED requestMsg
    /\ UNCHANGED codecVars

(* ---- WaitDone, Close --------------------------------------------------- *)
(* WaitDone: <-c.doneChan                                                  *)
WaitDone ==
    /\ Running
    /\ cpc = "sent"
    /\ cpc' = "wait"
    /\ UNCHANGED <<outMsg, lpc, TransactionID, SecondsElapsed, DhcpServerHost,
                   CurrentMessageType, retry, uconn, lconn, timer, inbox, sent,
                   signals, gotOwn, gotOther>>
    /\ UNCHANGED <<args, newErr, relay, lport, nextListen, lastErr>>
    /\ UNCHANGED requestMsg
    /\ UNCHANGED codecVars

(* a loop that reads on after c.done() has returned                        *)
AfterDoneReadsOn == "read"

(* listenUDP after c.done() has returned: return, which runs the deferred  *)
(* conn.Close()                                                            *)
AfterDone == "return"

(* doneChan is unbuffered: the send in done() and the receive in WaitDone  *)
(* happen together                                                         *)
done ==
    /\ Running
    /\ lpc = "signal"
    /\ cpc = "wait"
    /\ signals' = signals + 1
    /\ lpc' = AfterDone
    /\ cpc' = "unblocked"
    /\ UNCHANGED <<outMsg, TransactionID, SecondsElapsed, DhcpServerHost,
                   CurrentMessageType, retry, uconn, lconn, timer, inbox, sent,
                   gotOwn, gotOther>>
    /\ UNCHANGED <<args, newErr, relay, lport, nextListen, lastErr>>
    /\ UNCHANGED requestMsg
    /\ UNCHANGED codecVars

(* the c.Close() that ends WaitDone                                        *)
WaitDoneClose ==
    /\ Running
    /\ cpc = "unblocked"
    /\ cpc' = "returned"
    /\ uconn' = "closed"
    /\ UNCHANGED <<outMsg, lpc, TransactionID, SecondsElapsed, DhcpServerHost,
                   CurrentMessageType, retry, lconn, timer, inbox, sent,
                   signals, gotOwn, gotOther>>
    /\ UNCHANGED <<args, newErr, relay, lport, nextListen, lastErr>>
    /\ UNCHANGED requestMsg
    /\ UNCHANGED codecVars

(* Close called by the caller instead of WaitDone: it closes c.UDPConn,    *)
(* the dialled socket                                                      *)
Close ==
    /\ Running
    /\ cpc \in {"created", "sent", "sendFailed"}
    /\ cpc' = "closed"
    /\ uconn' = "closed"
    /\ UNCHANGED <<outMsg, lpc, TransactionID, SecondsElapsed, DhcpServerHost,
                   CurrentMessageType, retry, lconn, timer, inbox, sent,
                   signals, gotOwn, gotOther>>
    /\ UNCHANGED <<args, newErr, relay, lport, nextListen, lastErr>>
    /\ UNCHANGED requestMsg
    /\ UNCHANGED codecVars

(* ---- listenUDP --------------------------------------------------------- *)
(* net.ListenUDP, then the first SetReadDeadline; on an error the          *)
(* goroutine returns without a word to doneChan                            *)
isRelay == relay # ZeroIP

(* laddr.Port: 68, and 67 for a relayed session                            *)
ListenPort == IF isRelay THEN 67 ELSE 68

ListenUDP ==
    /\ lpc = "listen"
    /\ lport' = ListenPort
    /\ \E bound \in BOOLEAN :
          IF bound
          THEN /\ lpc' = "read"
               /\ lconn' = "open"
          ELSE /\ lpc' = "listenFailed"
               /\ lconn' = "nil"
    /\ timer' = 0
    /\ UNCHANGED <<cpc, outMsg, TransactionID, SecondsElapsed, DhcpServerHost,
                   CurrentMessageType, retry, uconn, inbox, sent, signals,
                   gotOwn, gotOther>>
    /\ UNCHANGED <<args, newErr, relay, nextListen, lastErr>>
    /\ UNCHANGED requestMsg
    /\ UNCHANGED codecVars

(* a second passes while the goroutine is blocked in ReadFromUDP           *)
Tick ==
    /\ lpc = "read"
    /\ timer < ReadDeadlineSecs
    /\ timer' = timer + 1
    /\ UNCHANGED <<cpc, outMsg, lpc, TransactionID, SecondsElapsed,
                   DhcpServerHost, CurrentMessageType, retry, uconn, lconn,
                   inbox, sent, signals, gotOwn, gotOther>>
    /\ UNCHANGED <<args, newErr, relay, lport, nextListen, lastErr>>
    /\ UNCHANGED requestMsg
    /\ UNCHANGED codecVars

(* a loop that takes no error for a timeout                                *)
IsTimeoutNever(err) == FALSE

(* op.Timeout() || op.Temporary() *)
IsTimeout(err) == err \in {"timeout", "temporary"}

(* what listenUDP does with a ReadFromUDP error: c.done() and return after *)
(* a timeout or temporary error, and otherwise continue, the deadline as   *)
(* it was                                                                  *)
AfterReadError(err) == IF IsTimeout(err) THEN "signal" ELSE "read"

(* the error the loop goes on after, "" when it ends the loop              *)
ErrorGoneOnAfter(err) == IF AfterReadError(err) = "read" THEN err ELSE ""

(* ReadFromUDP returns because the read deadline has passed                *)
ReadTimeout ==
    /\ lpc = "read"
    /\ timer = ReadDeadlineSecs
    /\ lpc' = AfterReadError("timeout")
    /\ UNCHANGED <<cpc, outMsg, TransactionID, SecondsElapsed, DhcpServerHost,
                   CurrentMessageType, retry, uconn, lconn, timer, inbox, sent,
                   signals, gotOwn, gotOther>>
    /\ lastErr' = ErrorGoneOnAfter("timeout")
    /\ UNCHANGED <<args, newErr, relay, lport, nextListen>>
    /\ UNCHANGED requestMsg
    /\ UNCHANGED codecVars

(* ReadFromUDP fails before the deadline                                   *)
ReadError ==
    /\ lpc = "read"
    /\ timer < ReadDeadlineSecs
    /\ \E err \in {"temporary", "other"} :
          /\ lpc' = AfterReadError(err)
          /\ lastErr' = ErrorGoneOnAfter(err)
    /\ UNCHANGED <<cpc, outMsg, TransactionID, SecondsElapsed, DhcpServerHost,
                   CurrentMessageType, retry, uconn, lconn, timer, inbox, sent,
                   signals, gotOwn, gotOther>>
    /\ UNCHANGED <<args, newErr, relay, lport, nextListen>>
    /\ UNCHANGED requestMsg
    /\ UNCHANGED codecVars

(* ReadFromUDP returns a datagram, before the deadline                     *)
ReadFromUDP ==
    /\ lpc = "read"
    /\ timer < ReadDeadlineSecs
    /\ \E d \in Datagrams :
          /\ (d.decodes /\ d.xid = TransactionID /\ d.type = MessageTypeNak)
                => retry < MaxNakRun
          /\ inbox' = d
          /\ gotOwn' = (gotOwn \/ (d.decodes /\ d.xid = TransactionID))
          /\ gotOther' = (gotOther \/ (d.decodes /\ d.xid # TransactionID))
    /\ lpc' = "handle"
    /\ UNCHANGED <<cpc, outMsg, TransactionID, SecondsElapsed, DhcpServerHost,
                   CurrentMessageType, retry, uconn, lconn, timer, sent,
                   signals>>
    /\ lastErr' = ""
    /\ UNCHANGED <<args, newErr, relay, lport, nextListen>>
    /\ UNCHANGED requestMsg
    /\ UNCHANGED codecVars

(* ---- handlerResponse --------------------------------------------------- *)
(* m.Decode(b) indexes past the end of a datagram that is too short or     *)
(* whose options run to the end of the buffer: the goroutine panics        *)
DecodePanics(d) == ~d.decodes

(* a handler that lacks the TransactionID test                              *)
TxMatchesAny(m) == TRUE

(* if m.TransactionID != c.TransactionID { return false }                  *)
TxMatches(m) == m.xid = TransactionID

(* c.CurrentMessageType == MessageTypeDiscover && c.retry < MaxRetryNum,   *)
(* evaluated after c.retry++                                               *)
NakRetries(cmt, r) == cmt = MessageTypeDiscover /\ r < MaxRetryNum

(* if addr.String() != c.DhcpServerHost { return false }; return true      *)
NakEnds(addr) == AddrString(addr) = DhcpServerHost

(* a handler that takes the Offer whatever the session has sent            *)
OfferAcceptedAnyState(cmt, m) == m.type = MessageTypeOffer

(* a handler that takes the Offer in the state after a Request             *)
OfferAcceptedAfterRequest(cmt, m) ==
    cmt = MessageTypeRequest /\ m.type = MessageTypeOffer

(* c.CurrentMessageType == MessageTypeDiscover &&                          *)
(* m.MessageType == MessageTypeOffer                                       *)
OfferAccepted(cmt, m) == cmt = MessageTypeDiscover /\ m.type = MessageTypeOffer

(* a handler that ends on any Ack, whatever the session has sent           *)
AckCompletesAnyState(cmt, m) == m.type = MessageTypeAck

(* c.CurrentMessageType == MessageTypeRequest &&                           *)
(* m.MessageType == MessageTypeAck                                         *)
AckCompletes(cmt, m) == cmt = MessageTypeRequest /\ m.type = MessageTypeAck

(* The effect of handlerResponse on a decoded message m up to the Write it *)
(* makes, if it makes one, or else up to its return: the new               *)
(* CurrentMessageType, retry and SecondsElapsed, the message to write, and *)
(* the value returned when there is none to write.  On a NAK that is       *)
(* retried the message is the m of c.Discovery(), which assigns            *)
(* c.CurrentMessageType before its Write.                                  *)
HandlerResult(m) ==
    IF ~TxMatches(m)
    THEN [cmt |-> CurrentMessageType, retry |-> retry,
          secs |-> SecondsElapsed, out |-> <<>>, ret |-> FALSE]
    ELSE IF m.type = MessageTypeNak
    THEN IF NakRetries(CurrentMessageType, retry + 1)
         THEN [cmt |-> MessageTypeDiscover, retry |-> retry + 1,
               secs |-> SecondsElapsed,
               out |-> <<GenSessionMessage(MessageTypeDiscover)>>,
               ret |-> FALSE]
         ELSE [cmt |-> CurrentMessageType, retry |-> retry + 1,
               secs |-> SecondsElapsed, out |-> <<>>,
               ret |-> NakEnds(m.src)]
    ELSE IF OfferAccepted(CurrentMessageType, m)
    THEN LET msg == [GenRequestMessage(m) EXCEPT !.giaddr = SessionRelay]
         IN [cmt |-> msg.type, retry |-> 0, secs |-> msg.secs,
             out |-> <<msg>>, ret |-> FALSE]
    ELSE [cmt |-> CurrentMessageType, retry |-> 0, secs |-> SecondsElapsed,
          out |-> <<>>, ret |-> AckCompletes(CurrentMessageType, m)]

(* what handlerResponse returns after its Write of outcome wok for the     *)
(* message m: false after c.Discovery() and after a Write that failed, and *)
(* the outcome of the last test after a Request that was written           *)
AfterWrite(m, wok) ==
    IF m.type = MessageTypeNak THEN FALSE
    ELSE wok /\ AckCompletes(CurrentMessageType, m)

(* where listenUDP goes when handlerResponse has returned ok: c.done() and *)
(* return, or the next ReadFromUDP                                         *)
AfterHandler(ok) == IF ok THEN "signal" ELSE "read"

(* listenUDP hands the datagram to handlerResponse, which decodes it and   *)
(* assigns the session's state; it then returns, or goes on to write the   *)
(* message it has built.  When it returns false the read deadline is set   *)
(* anew.                                                                   *)
handlerResponse ==
    /\ lpc = "handle"
    /\ IF DecodePanics(inbox)
       THEN /\ lpc' = "panic"
            /\ inbox' = NoDatagram
            /\ UNCHANGED <<CurrentMessageType, retry, SecondsElapsed, timer,
                           requestMsg>>
       ELSE LET r == HandlerResult(inbox)
            IN /\ CurrentMessageType' = r.cmt
               /\ retry' = r.retry
               /\ SecondsElapsed' = r.secs
               /\ IF r.out # <<>>
                  THEN /\ requestMsg' = r.out[1]
                       /\ lpc' = "write"
                       /\ UNCHANGED <<inbox, timer>>
                  ELSE /\ lpc' = AfterHandler(r.ret)
                       /\ timer' = IF r.ret THEN timer ELSE 0
                       /\ inbox' = NoDatagram
                       /\ UNCHANGED requestMsg
    /\ UNCHANGED <<cpc, outMsg, TransactionID, DhcpServerHost, uconn, lconn,
                   sent, signals, gotOwn, gotOther>>
    /\ UNCHANGED <<args, newErr, relay, lport, nextListen, lastErr>>
    /\ UNCHANGED codecVars

(* the c.Write(requestMsg.Encode()) of handlerResponse, and that of the    *)
(* c.Discovery() it calls on a NAK, and its return                         *)
handlerWrite ==
    /\ lpc = "write"
    /\ \E wok \in WriteOutcomes :
          LET ret == AfterWrite(inbox, wok)
          IN /\ sent' = Append(sent, Written(requestMsg, wok))
             /\ lpc' = AfterHandler(ret)
             /\ timer' = IF ret THEN timer ELSE 0
    /\ requestMsg' = NoMessage
    /\ inbox' = NoDatagram
    /\ UNCHANGED <<cpc, outMsg, TransactionID, SecondsElapsed, DhcpServerHost,
                   CurrentMessageType, retry, uconn, lconn, signals, gotOwn,
                   gotOther>>
    /\ UNCHANGED <<args, newErr, relay, lport, nextListen, lastErr>>
    /\ UNCHANGED codecVars

(* the deferred conn.Close(): it runs when listenUDP returns after         *)
(* c.done(), and when the panic of m.Decode(b) unwinds listenUDP, before   *)
(* the process ends                                                        *)
ListenClose ==
    /\ lpc \in {"return", "panic"}
    /\ lconn = "open"
    /\ lpc' = IF lpc = "return" THEN "exit" ELSE "panic"
    /\ lconn' = "closed"
    /\ UNCHANGED <<cpc, outMsg, TransactionID, SecondsElapsed, DhcpServerHost,
                   CurrentMessageType, retry, uconn, timer, inbox, sent,
                   signals, gotOwn, gotOther>>
    /\ UNCHANGED <<args, newErr, relay, lport, nextListen, lastErr>>
    /\ UNCHANGED requestMsg
    /\ UNCHANGED codecVars

(* ---- the next session -------------------------------------------------- *)
(* main, when WaitDone has returned, constructs the next session, whose    *)
(* goroutine asks net.ListenUDP for the same port: the bind fails while    *)
(* the socket of the session before is open                                *)
NextListenUDP ==
    /\ Running
    /\ cpc = "returned"
    /\ nextListen = "none"
    /\ nextListen' = IF lconn = "open" THEN "failed" ELSE "bound"
    /\ UNCHANGED <<cpc, outMsg, lpc, TransactionID, SecondsElapsed,
                   DhcpServerHost, CurrentMessageType, retry, uconn, lconn,
                   timer, inbox, sent, signals, gotOwn, gotOther>>
    /\ UNCHANGED <<args, newErr, relay, lport, lastErr>>
    /\ UNCHANGED requestMsg
    /\ UNCHANGED codecVars

(* ---- the specification ------------------------------------------------- *)
Next ==
    \/ NewDHCPRequest
    \/ Discovery
    \/ Decline
    \/ Release
    \/ CallerWrite
    \/ WaitDone
    \/ done
    \/ WaitDoneClose
    \/ Close
    \/ ListenUDP
    \/ Tick
    \/ ReadTimeout
    \/ ReadError
    \/ ReadFromUDP
    \/ handlerResponse
    \/ handlerWrite
    \/ ListenClose
    \/ NextListenUDP

Spec == Init /\ [][Next]_vars

(* The goroutine runs whenever it can, and time passes while it waits in   *)
(* ReadFromUDP; datagrams arrive, or do not, as the network pleases.       *)
FairSpec ==
    /\ Spec
    /\ WF_vars(ListenUDP)
    /\ SF_vars(Tick)
    /\ WF_vars(ReadTimeout)
    /\ WF_vars(handlerResponse)
    /\ WF_vars(handlerWrite)
    /\ WF_vars(done)
    /\ WF_vars(ListenClose)

(* ======================================================================= *)
(* The codec on its own: a builder's message is encoded and decoded back,  *)
(* a datagram is decoded and, when it is an Offer, answered by a Request,  *)
(* and an option is encoded and decoded.                                   *)
(* ======================================================================= *)
CodecInit ==
    /\ SessionStart
    /\ cin \in CodecInputs
    /\ cstep = "start"
    /\ cmsg = EmptyMessage
    /\ wire = <<>>
    /\ decoded = NoDecode
    /\ optDecoded = NoOptions
    /\ optDirect = NoOption
    /\ conv = NoConv

BuildDiscover ==
    /\ cstep = "start"
    /\ cin.kind = "discover"
    /\ cmsg' = DiscoveryMessage(cin)
    /\ cstep' = "built"
    /\ UNCHANGED <<cin, wire, decoded, optDecoded, optDirect, conv>>
    /\ UNCHANGED sessionVars

BuildDecline ==
    /\ cstep = "start"
    /\ cin.kind = "decline"
    /\ cmsg' = DeclineMessage(cin)
    /\ cstep' = "built"
    /\ UNCHANGED <<cin, wire, decoded, optDecoded, optDirect, conv>>
    /\ UNCHANGED sessionVars

BuildRelease ==
    /\ cstep = "start"
    /\ cin.kind = "release"
    /\ cmsg' = ReleaseMessage(cin)
    /\ cstep' = "built"
    /\ UNCHANGED <<cin, wire, decoded, optDecoded, optDirect, conv>>
    /\ UNCHANGED sessionVars

(* c.Write(m.Encode())                                                     *)
EncodeMessage ==
    /\ cstep = "built"
    /\ wire' = Encode(cmsg)
    /\ cstep' = "encoded"
    /\ UNCHANGED <<cin, cmsg, decoded, optDecoded, optDirect, conv>>
    /\ UNCHANGED sessionVars

(* the bytes written are decoded back                                      *)
DecodeMessage ==
    /\ cstep = "encoded"
    /\ \E slack \in CapSlacks : decoded' = Decode(wire, slack)
    /\ cstep' = "decoded"
    /\ UNCHANGED <<cin, cmsg, wire, optDecoded, optDirect, conv>>
    /\ UNCHANGED sessionVars

(* conn.ReadFromUDP(data)                                                  *)
ReceiveReply ==
    /\ cstep = "start"
    /\ cin.kind = "reply"
    /\ wire' = ReplyDatagram(cin)
    /\ cstep' = "received"
    /\ UNCHANGED <<cin, cmsg, decoded, optDecoded, optDirect, conv>>
    /\ UNCHANGED sessionVars

(* m.Decode(b) in handlerResponse                                          *)
DecodeReply ==
    /\ cstep = "received"
    /\ \E slack \in CapSlacks : decoded' = Decode(wire, slack)
    /\ cstep' = "handled"
    /\ UNCHANGED <<cin, cmsg, wire, optDecoded, optDirect, conv>>
    /\ UNCHANGED sessionVars

(* GenRequestMessage(m, options...) in handlerResponse                     *)
BuildRequest ==
    /\ cstep = "handled"
    /\ ~decoded.panic
    /\ decoded.m.mtype = MessageTypeOffer
    /\ cmsg' = RequestMessage(decoded.m, cin)
    /\ cstep' = "built"
    /\ UNCHANGED <<cin, wire, decoded, optDecoded, optDirect, conv>>
    /\ UNCHANGED sessionVars

(* an option decoded from its encoding: by the option loop of Decode, the  *)
(* pad byte after it, and by the Decode method of its type                 *)
OptionDirect(o) ==
    IF o.code \in {3, 6, 61}
    THEN LET r == DecodeOptions(OptionEncode(o) \o <<0>>, 0, 1, <<>>, 0)
         IN  IF r.panic \/ r.options = <<>> THEN NoOption ELSE r.options[1]
    ELSE IF o.code = 255 THEN OptionDecode(255, OptionEncode(o))
    ELSE OptionDecode(o.code, Tail(OptionEncode(o)))

OptionRoundTrip ==
    /\ cstep = "start"
    /\ cin.kind = "option"
    /\ optDecoded' = DecodeOptions(OptionEncode(cin.opt) \o <<0>>, 0, 1, <<>>, 0)
    /\ optDirect' = OptionDirect(cin.opt)
    /\ cstep' = "optdone"
    /\ UNCHANGED <<cin, cmsg, wire, decoded, conv>>
    /\ UNCHANGED sessionVars

(* BytesToUint16(data) and BytesToUint32(data) on a byte slice              *)
BytesToUint ==
    /\ cstep = "start"
    /\ cin.kind = "bytes"
    /\ conv' = [NoConv EXCEPT
                   !.panic = BytesToUint16Panics(cin.data),
                   !.u16 = IF BytesToUint16Panics(cin.data) THEN 0
                           ELSE BytesToUint16(cin.data),
                   !.u32 = BytesToUint32(cin.data)]
    /\ cstep' = "converted"
    /\ UNCHANGED <<cin, cmsg, wire, decoded, optDecoded, optDirect>>
    /\ UNCHANGED sessionVars

(* BytesToUint16(Uint16ToBytes(data))                                      *)
Uint16RoundTrip ==
    /\ cstep = "start"
    /\ cin.kind = "uint16"
    /\ conv' = [NoConv EXCEPT
                   !.bytes = Uint16ToBytes(cin.num),
                   !.u16 = BytesToUint16(Uint16ToBytes(cin.num))]
    /\ cstep' = "converted"
    /\ UNCHANGED <<cin, cmsg, wire, decoded, optDecoded, optDirect>>
    /\ UNCHANGED sessionVars

(* BytesToUint32(Uint32ToBytes(data))                                      *)
Uint32RoundTrip ==
    /\ cstep = "start"
    /\ cin.kind = "uint32"
    /\ conv' = [NoConv EXCEPT
                   !.bytes = Uint32ToBytes(cin.num),
                   !.u32 = BytesToUint32(Uint32ToBytes(cin.num))]
    /\ cstep' = "converted"
    /\ UNCHANGED <<cin, cmsg, wire, decoded, optDecoded, optDirect>>
    /\ UNCHANGED sessionVars

CodecNext ==
    \/ BuildDiscover
    \/ BuildDecline
    \/ BuildRelease
    \/ EncodeMessage
    \/ DecodeMessage
    \/ ReceiveReply
    \/ DecodeReply
    \/ BuildRequest
    \/ OptionRoundTrip
    \/ BytesToUint
    \/ Uint16RoundTrip
    \/ Uint32RoundTrip

CodecSpec == CodecInit /\ [][CodecNext]_vars

(* ---- what the claims speak of ------------------------------------------ *)
(* the step in which handlerResponse runs on the datagram in inbox         *)
HandlerStep == lpc = "handle" /\ lpc' # "handle"

(* the step in which handlerResponse makes its Write and returns           *)
WriteStep == lpc = "write" /\ lpc' # "write"

(* the datagram in inbox decodes to a message with the session's           *)
(* TransactionID, or with another one                                      *)
OwnMessage == inbox.decodes /\ inbox.xid = TransactionID
OtherMessage == inbox.decodes /\ inbox.xid # TransactionID

(* a message of the given type has gone out: its Write succeeded           *)
HasSent(type) == \E i \in 1..Len(sent) : sent[i].type = type /\ sent[i].ok

(* the states of the session as the specification names them               *)
Idle == CurrentMessageType = 0
AwaitingOffer == CurrentMessageType = MessageTypeDiscover
AwaitingAck ==
    CurrentMessageType \in {MessageTypeRequest, MessageTypeDecline,
                            MessageTypeRelease}

(* ---- C1 ---------------------------------------------------------------- *)
(* C1: handling a datagram that decodes to a message with another          *)
(* transaction ID, of whatever message type and in whatever state of the   *)
(* session, leaves CurrentMessageType, retry and SecondsElapsed as they    *)
(* were, writes nothing, and does not lead to c.done(): the goroutine goes *)
(* on to the next read.                                                    *)
C1_OtherTransactionIgnored ==
    [][(HandlerStep /\ OtherMessage) =>
          /\ CurrentMessageType' = CurrentMessageType
          /\ retry' = retry
          /\ SecondsElapsed' = SecondsElapsed
          /\ sent' = sent
          /\ signals' = signals
          /\ lpc' = "read"]_vars

(* datagrams of other transactions only have been handled, the session is  *)
(* still waiting for its Offer and has written its Discover and no more    *)
C1_Witness ==
    /\ gotOther /\ ~gotOwn
    /\ lpc = "read" /\ timer = 0
    /\ AwaitingOffer
    /\ Len(sent) = 1 /\ sent[1].type = MessageTypeDiscover
    /\ retry = 0 /\ SecondsElapsed = 0

(* ---- C2 ---------------------------------------------------------------- *)
(* C2: a session that has sent its Discover, is in AwaitingOffer with      *)
(* retry = 0 and handles a NAK with its transaction ID goes on to write a  *)
(* Discover with the same transaction ID and elapsed-seconds and stays in  *)
(* AwaitingOffer.                                                          *)
C2_NakResendsDiscover ==
    [][(/\ HandlerStep /\ OwnMessage /\ inbox.type = MessageTypeNak
        /\ AwaitingOffer /\ retry = 0 /\ HasSent(MessageTypeDiscover)
        /\ uconn = "open") =>
          /\ lpc' = "write"
          /\ requestMsg' = [type |-> MessageTypeDiscover,
                            xid |-> TransactionID,
                            secs |-> SecondsElapsed, giaddr |-> relay]
          /\ CurrentMessageType' = MessageTypeDiscover]_vars

(* ---- C3 ---------------------------------------------------------------- *)
(* C3: when a NAK with the session's transaction ID does not make the      *)
(* session write a Discover again, the goroutine goes to c.done() if and   *)
(* only if the NAK came from the address of the configured server.         *)
C3_NakEndsIffFromServer ==
    [][(/\ HandlerStep /\ OwnMessage /\ inbox.type = MessageTypeNak
        /\ lpc' # "write") =>
          ((lpc' = "signal") <=> (inbox.src.ip = DhcpServerHost))]_vars

(* ---- C4 ---------------------------------------------------------------- *)
(* C4 as stated: in AwaitingOffer, handling an Offer with the session's    *)
(* transaction ID sets retry to 0, sends exactly one Request built from    *)
(* the Offer, and moves the session to AwaitingAck without c.done().       *)
C4_OfferSendsRequest ==
    [][/\ (HandlerStep /\ OwnMessage /\ inbox.type = MessageTypeOffer
           /\ AwaitingOffer /\ HasSent(MessageTypeDiscover)) =>
             /\ retry' = 0
             /\ requestMsg' = [type |-> MessageTypeRequest,
                               xid |-> inbox.xid,
                               secs |-> (inbox.secs + 1) % Uint16Mod,
                               giaddr |-> relay]
             /\ CurrentMessageType' = MessageTypeRequest
             /\ lpc' = "write"
             /\ sent' = sent
             /\ signals' = signals
       /\ (WriteStep /\ requestMsg.type = MessageTypeRequest
           /\ HasSent(MessageTypeDiscover)) =>
             /\ sent' = Append(sent, Written(requestMsg, TRUE))
             /\ CurrentMessageType' = MessageTypeRequest
             /\ lpc' = "read"
             /\ signals' = signals]_vars

(* C4 amended: in AwaitingOffer, handling an Offer with the session's      *)
(* transaction ID sets retry to 0, makes exactly one Write, of a Request   *)
(* built from the Offer, and moves the session to AwaitingAck without      *)
(* c.done(), whether that Write succeeds or fails; the Write cannot        *)
(* succeed once the dialled socket is closed.                              *)
C4_OfferWritesRequest ==
    [][/\ (HandlerStep /\ OwnMessage /\ inbox.type = MessageTypeOffer
           /\ AwaitingOffer) =>
             /\ retry' = 0
             /\ requestMsg' = [type |-> MessageTypeRequest,
                               xid |-> inbox.xid,
                               secs |-> (inbox.secs + 1) % Uint16Mod,
                               giaddr |-> relay]
             /\ CurrentMessageType' = MessageTypeRequest
             /\ lpc' = "write"
             /\ sent' = sent
             /\ signals' = signals
       /\ (WriteStep /\ requestMsg.type = MessageTypeRequest) =>
             /\ \E wok \in BOOLEAN :
                   /\ (uconn # "open" => ~wok)
                   /\ sent' = Append(sent, Written(requestMsg, wok))
             /\ CurrentMessageType' = MessageTypeRequest
             /\ lpc' = "read"
             /\ signals' = signals]_vars

(* the Offer has been handled: a Discover and then a Request have gone     *)
(* out, the session awaits the Ack and the goroutine reads on              *)
C4_Witness ==
    /\ CurrentMessageType = MessageTypeRequest
    /\ Len(sent) = 2
    /\ sent[1].type = MessageTypeDiscover /\ sent[1].ok
    /\ sent[2] = [type |-> MessageTypeRequest, xid |-> TransactionID,
                  secs |-> 1, giaddr |-> relay, ok |-> TRUE]
    /\ SecondsElapsed = 1
    /\ retry = 0 /\ lpc = "read" /\ timer = 0 /\ signals = 0

(* ---- C5 ---------------------------------------------------------------- *)
(* C5: handling an Ack with the session's transaction ID in AwaitingAck    *)
(* after a Request went out leads to c.done(), and an Ack does not lead to *)
(* c.done() in a session from which no Request has gone out.               *)
C5_AckEndsOnlyAfterRequest ==
    [][(HandlerStep /\ OwnMessage /\ inbox.type = MessageTypeAck) =>
          /\ (CurrentMessageType = MessageTypeRequest
                /\ HasSent(MessageTypeRequest)) => lpc' = "signal"
          /\ ~HasSent(MessageTypeRequest) => lpc' # "signal"]_vars

(* ---- C6 ---------------------------------------------------------------- *)
(* C6: a message with the session's transaction ID that is no NAK, no      *)
(* Offer in AwaitingOffer and no Ack in AwaitingAck changes no             *)
(* CurrentMessageType, writes nothing and does not lead to c.done().       *)
C6_OtherPairsIgnored ==
    [][(/\ HandlerStep /\ OwnMessage
        /\ inbox.type # MessageTypeNak
        /\ ~(AwaitingOffer /\ inbox.type = MessageTypeOffer)
        /\ ~(AwaitingAck /\ inbox.type = MessageTypeAck)) =>
          /\ CurrentMessageType' = CurrentMessageType
          /\ SecondsElapsed' = SecondsElapsed
          /\ sent' = sent
          /\ signals' = signals
          /\ lpc' = "read"]_vars

(* messages with the session's transaction ID have been handled, the last  *)
(* of them no NAK (retry is 0), and the session still awaits its Offer     *)
(* with nothing written but the Discover                                   *)
C6_Witness ==
    /\ gotOwn /\ ~gotOther
    /\ AwaitingOffer
    /\ Len(sent) = 1 /\ sent[1].type = MessageTypeDiscover /\ sent[1].ok
    /\ retry = 0 /\ lpc = "read" /\ timer = 0 /\ signals = 0

(* ---- C7 ---------------------------------------------------------------- *)
(* C7: in a session that has sent a Decline or a Release, an Ack with the  *)
(* session's transaction ID, or such a NAK from the configured server's    *)
(* address, leads to c.done().                                             *)
C7_DeclineReleaseReplyEnds ==
    [][(/\ HandlerStep /\ OwnMessage
        /\ \/ (CurrentMessageType = MessageTypeDecline
                 /\ HasSent(MessageTypeDecline))
           \/ (CurrentMessageType = MessageTypeRelease
                 /\ HasSent(MessageTypeRelease))
        /\ \/ inbox.type = MessageTypeAck
           \/ (inbox.type = MessageTypeNak
                 /\ inbox.src.ip = DhcpServerHost)) =>
          lpc' = "signal"]_vars

(* ---- C8 ---------------------------------------------------------------- *)
(* C8: once the read deadline has passed with the goroutine in             *)
(* ReadFromUDP, whatever the session has sent, the goroutine calls         *)
(* c.done(); and with the caller in WaitDone the value is handed over and  *)
(* the goroutine ends.                                                     *)
C8_DeadlineEndsSession ==
    /\ (lpc = "read" /\ timer = ReadDeadlineSecs) ~> (lpc = "signal")
    /\ (lpc = "signal" /\ timer = ReadDeadlineSecs /\ cpc = "wait")
          ~> (lpc = "exit" /\ signals = 1)

(* the deadline passed with no datagram read, in a session that has sent   *)
(* nothing yet, and the goroutine is in c.done()                           *)
C8_WitnessIdle ==
    lpc = "signal" /\ timer = ReadDeadlineSecs /\ Idle /\ ~gotOwn /\ ~gotOther

(* ---- C9 ---------------------------------------------------------------- *)
(* C9: a session whose goroutine never reads a datagram with the session's *)
(* transaction ID calls c.done() in the end, although datagrams of other   *)
(* transactions keep arriving.  (A goroutine that has left the read loop   *)
(* otherwise, by a panic, is not held against the claim.)                  *)
C9_EndsWithoutOwnDatagram ==
    [](lpc = "read" => <>(gotOwn \/ lpc \notin {"read", "handle", "write"}))

(* ---- C10 --------------------------------------------------------------- *)
(* C10: doneChan delivers at most one value; it has delivered one exactly  *)
(* when the goroutine has come back from c.done(), by whichever path it    *)
(* went there, and exactly when the caller has been released from          *)
(* WaitDone.                                                               *)
C10_SignalOnce ==
    /\ signals <= 1
    /\ (signals = 1) <=> (lpc \in {"return", "exit"})
    /\ (signals = 1) <=> (cpc \in {"unblocked", "returned"})
    /\ lpc \in {"read", "handle", "write", "signal"} => signals = 0

(* the value was delivered after an Ack, before the deadline had passed    *)
C10_Witness ==
    /\ signals = 1 /\ lpc = "exit" /\ cpc = "returned"
    /\ CurrentMessageType = MessageTypeRequest
    /\ timer < ReadDeadlineSecs

(* ---- C11 --------------------------------------------------------------- *)
(* C11: a session that reached Done has closed its listening socket no     *)
(* later than the moment the waiting caller is unblocked, so the session   *)
(* main starts after WaitDone returned never finds the port bound.         *)
C11_ListenClosedBeforeUnblock ==
    /\ cpc \in {"unblocked", "returned"} => lconn = "closed"
    /\ nextListen # "failed"

(* ---- C12 --------------------------------------------------------------- *)
(* C12: when the caller closes the session before it reached Done, the     *)
(* receive task stops and the listening socket is released.                *)
C12_CloseStopsReceive ==
    (cpc = "closed" /\ Running) ~>
        (~Running \/ (lpc \in {"exit", "listenFailed"} /\ lconn # "open"))

(* ---- C13 --------------------------------------------------------------- *)
(* the relay the session was constructed with is absent or 0.0.0.0         *)
NoRelayGiven == args.relay \in {"", "0.0.0.0"}

(* C13: every message the session writes carries the relay address it was  *)
(* constructed with in giaddr, and the session listens on port 67; with    *)
(* the relay absent or 0.0.0.0 giaddr is zero and the port is 68.          *)
C13_RelayInEveryMessage ==
    /\ \A i \in 1..Len(sent) :
          sent[i].giaddr = IF NoRelayGiven THEN "0.0.0.0" ELSE args.relay
    /\ lport # 0 => lport = IF NoRelayGiven THEN 68 ELSE 67

(* a relayed session that listens on port 67 has written its Discover and  *)
(* its Request                                                             *)
C13_Witness ==
    /\ args.relay = "10.0.0.9"
    /\ lport = 67
    /\ Len(sent) = 2
    /\ sent[1].type = MessageTypeDiscover /\ sent[1].giaddr = "10.0.0.9"
    /\ sent[2].type = MessageTypeRequest /\ sent[2].giaddr = "10.0.0.9"

(* ---- C14 --------------------------------------------------------------- *)
(* C14 as stated: when the constructor returns without error a Discover    *)
(* with the session's TransactionID has been sent and the session is in    *)
(* AwaitingOffer.                                                          *)
C14_ConstructorSendsDiscover ==
    [][cpc = "start" /\ cpc' = "created" =>
         /\ \E i \in 1..Len(sent') :
               /\ sent'[i].type = MessageTypeDiscover
               /\ sent'[i].xid = TransactionID'
         /\ AwaitingOffer']_vars

(* C14 amended: the constructor writes nothing and leaves the session      *)
(* Idle; when Discovery returns without error the Discover with the        *)
(* session's TransactionID is the message just written.                    *)
C14_DiscoverySendsDiscover ==
    [][/\ cpc = "start" /\ cpc' = "created" => sent' = <<>> /\ Idle'
       /\ cpc = "writing" /\ cpc' = "sent" /\ outMsg.type = MessageTypeDiscover
             => /\ sent' = Append(sent, [type |-> MessageTypeDiscover,
                                         xid |-> TransactionID,
                                         secs |-> outMsg.secs,
                                         giaddr |-> relay, ok |-> TRUE])
                /\ CurrentMessageType' \in {MessageTypeDiscover,
                                            MessageTypeRequest}]_vars

(* Discovery has returned without error: the first message written is the  *)
(* session's Discover and the session is in AwaitingOffer                  *)
C14_Witness ==
    /\ cpc = "sent"
    /\ Len(sent) = 1
    /\ sent[1].type = MessageTypeDiscover
    /\ sent[1].xid = TransactionID
    /\ sent[1].ok
    /\ AwaitingOffer

(* ---- C15 --------------------------------------------------------------- *)
(* the arguments of the constructor that are no valid configuration        *)
InvalidMac == args.mac \notin HardwareAddrs
InvalidServer == args.serverIP \notin {"", "10.0.0.1"}
InvalidRelay == args.relay \notin {"", "0.0.0.0", "10.0.0.9"}

(* C15: construction with an invalid MAC text, server IP literal or relay  *)
(* address fails with an error; no socket has been dialled or bound and    *)
(* no goroutine has been started.                                          *)
C15_InvalidConfigFails ==
    [][cpc = "start" /\ cpc' # "start" =>
         /\ InvalidMac' \/ InvalidServer' \/ InvalidRelay' =>
               cpc' = "newFailed"
         /\ cpc' = "newFailed" =>
               /\ newErr' # ""
               /\ uconn' = "nil"
               /\ lconn' = "nil"
               /\ lpc' = "none"]_vars

(* the constructor has refused an IPv6 relay given with a valid MAC and    *)
(* server                                                                  *)
C15_Witness ==
    /\ cpc = "newFailed"
    /\ newErr = "relay"
    /\ args.relay = "::1"
    /\ ~InvalidMac /\ ~InvalidServer
    /\ uconn = "nil" /\ lpc = "none"

(* ---- C16 --------------------------------------------------------------- *)
(* C16: decoding a datagram that arrived never crashes, whatever its       *)
(* length and wherever its options end.                                    *)
C16_DecodeNeverCrashes ==
    cstep = "handled" => ~decoded.panic

(* ---- C17 --------------------------------------------------------------- *)
(* C17: decoding the encoding of a message a builder made gives back every *)
(* header field and the whole option list, in order.                       *)
C17_MessageRoundTrip ==
    cstep = "decoded" =>
        /\ ~decoded.panic
        /\ \A f \in DOMAIN cmsg \ {"options"} : decoded.m[f] = cmsg[f]
        /\ decoded.m.options = cmsg.options

(* ---- C18 --------------------------------------------------------------- *)
(* C18: a valid option of a supported type, encoded and then decoded by    *)
(* the decoder of its type, is the option again: the same code, length     *)
(* and payload.                                                            *)
C18_OptionRoundTrip ==
    cstep = "optdone" =>
        \/ ~optDecoded.panic /\ optDecoded.options = <<cin.opt>>
        \/ optDirect = cin.opt

(* ---- C19 --------------------------------------------------------------- *)
(* C19: an encoding has at least MinRequestLength bytes; a shorter natural *)
(* encoding is followed by zero bytes up to exactly that length, and a     *)
(* natural encoding that long or longer is the encoding.                   *)
C19_PaddedToMinimum ==
    cstep = "encoded" =>
        LET natural == NaturalEncode(cmsg)
        IN  /\ Len(wire) >= 300
            /\ Len(natural) < 300 =>
                  /\ Len(wire) = 300
                  /\ SubSeq(wire, 1, Len(natural)) = natural
                  /\ \A i \in (Len(natural) + 1)..300 : wire[i] = 0
            /\ Len(natural) >= 300 => wire = natural

(* a Discover with a host name is encoded in more than 300 bytes           *)
C19_WitnessLong ==
    /\ cstep = "encoded"
    /\ cmsg.mtype = MessageTypeDiscover
    /\ Len(NaturalEncode(cmsg)) > 300
    /\ Len(wire) > 300

(* ---- C20 --------------------------------------------------------------- *)
(* the options the session passes for its Request                          *)
RequestExtras ==
    <<[code |-> 57, length |-> 2, value |-> <<5, 220>>],
      [code |-> 51, length |-> 4, value |-> <<0, 118, 167, 0>>]>>
        \o (IF cin.hostName = <<>> THEN <<>>
            ELSE <<[code |-> 12, length |-> Len(cin.hostName) % 256,
                    value |-> cin.hostName]>>)

(* the options of that code the server put in its reply                    *)
ReplyOptions(code) == SelectSeq(cin.reply, LAMBDA o : o.code = code)

(* C20: the Request built on an Offer has the Offer's TransactionID, its   *)
(* SecondsElapsed plus one, and the options 53 = Request, 55, 50 with the  *)
(* Offer's YourIP, the session's extras, the Offer's option 54 and option  *)
(* 61 when it has them, and 255, in this order.                            *)
C20_RequestFromOffer ==
    [][cstep = "handled" /\ cstep' = "built" =>
         /\ cmsg'.mtype = MessageTypeRequest
         /\ cmsg'.xid = cin.xid
         /\ cmsg'.secs = (cin.secs + 1) % 65536
         /\ cmsg'.options =
               <<[code |-> 53, length |-> 1, value |-> <<3>>],
                 [code |-> 55, length |-> 10,
                  value |-> <<1, 3, 6, 15, 46, 108, 114, 119, 121, 252>>],
                 [code |-> 50, length |-> 4, value |-> <<10, 0, 0, 2>>]>>
                   \o RequestExtras \o ReplyOptions(54) \o ReplyOptions(61)
                   \o <<[code |-> 255, length |-> 0, value |-> <<>>]>>]_vars

(* a Request built on an Offer that has option 61 before option 54: the    *)
(* Request has option 54 before option 61                                  *)
C20_Witness ==
    /\ cstep = "built"
    /\ cin.kind = "reply"
    /\ cin.reply[2].code = 61
    /\ cin.hostName = <<>>
    /\ Len(cmsg.options) = 8
    /\ cmsg.options[6] = [code |-> 54, length |-> 4, value |-> <<10, 0, 0, 1>>]
    /\ cmsg.options[7].code = 61

(* ---- C21 --------------------------------------------------------------- *)
(* the session has reached Done: its completion has been signalled         *)
SessionDone == signals > 0

(* C21: a Request is written only after a Discover was sent and a datagram *)
(* with the session's TransactionID was read, at most one Request is       *)
(* written, and nothing is written once the session has reached Done.      *)
C21_OutboundOrdered ==
    [][/\ \A i \in 1..Len(sent') :
             sent'[i].type = MessageTypeRequest =>
                 /\ gotOwn'
                 /\ \E j \in 1..(i - 1) :
                       sent'[j].type = MessageTypeDiscover /\ sent'[j].ok
       /\ Cardinality({i \in 1..Len(sent') :
                          sent'[i].type = MessageTypeRequest}) <= 1
       /\ SessionDone => sent' = sent]_vars

(* ---- C22 --------------------------------------------------------------- *)
(* C22: CurrentMessageType, retry and SecondsElapsed are written by the    *)
(* goroutine's handlerResponse alone: never by the caller's thread, and    *)
(* never while handlerResponse is at work on a datagram.                   *)
C22_StateWrittenByReceiveTask ==
    [][<<CurrentMessageType, retry, SecondsElapsed>>'
           # <<CurrentMessageType, retry, SecondsElapsed>>
          => HandlerStep /\ cpc' = cpc]_vars

(* ---- C24 --------------------------------------------------------------- *)
(* C24: when net.ListenUDP has failed, the caller that waits in WaitDone   *)
(* is unblocked in the end.                                                *)
C24_ListenFailureUnblocks ==
    (lpc = "listenFailed" /\ cpc = "wait") ~> (cpc # "wait")

(* ---- C23 --------------------------------------------------------------- *)
(* C23: a ReadFromUDP error that is neither a timeout nor the deadline     *)
(* ends the loop: listenUDP does not call ReadFromUDP again.               *)
C23_OtherErrorEndsLoop ==
    [][lpc = "read" /\ lastErr' \notin {"", lastErr}
          => lpc' \notin {"read", "handle"}]_vars

(* ---- C25 --------------------------------------------------------------- *)
(* the option codes the datagram carries in the order the server wrote     *)
(* them, each with the length its payload has and, where the width is      *)
(* fixed, that width                                                       *)
WellFormedReply ==
    \A i \in 1..Len(cin.reply) :
        /\ cin.reply[i].length = Len(cin.reply[i].value)
        /\ cin.reply[i].code \in {1, 51, 54, 58, 59, 108}
              => cin.reply[i].length = 4
        /\ cin.reply[i].code = 53 => cin.reply[i].length = 1

(* the place in the reply of the first option Decode has no case for, and  *)
(* past the last option when it has a case for each                        *)
FirstUnrecognised ==
    LET unknown == {i \in 1..Len(cin.reply) :
                       cin.reply[i].code \notin
                           {1, 3, 6, 51, 53, 54, 58, 59, 61, 108, 138, 255}}
    IN  IF unknown = {} THEN Len(cin.reply) + 1
        ELSE CHOOSE i \in unknown : \A j \in unknown : i <= j

(* C25: option parsing stops at a code the decoder does not recognise (the *)
(* pad byte 0 among them): the decoded message has the header fields of    *)
(* the datagram and exactly the options before that code, in order.        *)
C25_UnrecognisedCodeStops ==
    (cstep = "handled" /\ WellFormedReply /\ ~decoded.panic) =>
        /\ decoded.m.options = SubSeq(cin.reply, 1, FirstUnrecognised - 1)
        /\ \A f \in DOMAIN decoded.m \ {"options"} :
              decoded.m[f] = ReplyMessage(cin)[f]

(* an Offer with option 12 before option 51 has been decoded: options 53   *)
(* and 54 and nothing after them                                           *)
C25_Witness ==
    /\ cstep = "handled"
    /\ ~decoded.panic
    /\ Len(cin.reply) = 5
    /\ cin.reply[3].code = 12
    /\ cin.reply[4].code = 51
    /\ Len(decoded.m.options) = 2
    /\ decoded.m.options[2].code = 54
    /\ decoded.m.xid = cin.xid

(* ---- C26 --------------------------------------------------------------- *)
(* the place of the first option 255 in the reply                          *)
FirstEnd ==
    CHOOSE i \in 1..Len(cin.reply) :
        /\ cin.reply[i].code = 255
        /\ \A j \in 1..(i - 1) : cin.reply[j].code # 255

(* C26: at option 255 the decoder stops: a datagram that holds its options *)
(* up to option 255, every one of them recognised and well formed, is      *)
(* decoded without a crash, 255 the last byte or not, and the options      *)
(* decoded are those up to the first option 255.                           *)
C26_EndOptionStops ==
    (/\ cstep = "handled"
     /\ WellFormedReply
     /\ FirstUnrecognised > FirstEnd
     /\ cin.len >= HeaderLength + Len(OptionsEncode(cin.reply))) =>
        /\ ~decoded.panic
        /\ decoded.m.options = SubSeq(cin.reply, 1, FirstEnd)

(* ---- C27 --------------------------------------------------------------- *)
(* the place in the reply of a fixed-width option whose length byte is not *)
(* its width, 0 when there is none                                         *)
FirstMismatch ==
    LET bad == {i \in 1..Len(cin.reply) :
                   \/ /\ cin.reply[i].code \in {1, 51, 54, 58, 59, 108}
                      /\ cin.reply[i].length # 4
                   \/ /\ cin.reply[i].code = 53
                      /\ cin.reply[i].length # 1}
    IN  IF bad = {} THEN 0 ELSE CHOOSE i \in bad : \A j \in bad : i <= j

(* C27: a datagram with a fixed-width option whose length byte is not that *)
(* width is not decoded beyond that option: the decoder gives no option    *)
(* read at or after it.                                                    *)
C27_WidthMismatchMalformed ==
    (cstep = "handled" /\ FirstMismatch > 0 /\ ~decoded.panic) =>
        decoded.m.options = SubSeq(cin.reply, 1, FirstMismatch - 1)

(* ---- C28 --------------------------------------------------------------- *)
(* C28: every option of a message the session has built, option 255 apart, *)
(* has a length byte that is the number of its payload bytes.              *)
C28_LengthIsPayloadLength ==
    cstep \in {"built", "encoded"} =>
        \A i \in 1..Len(cmsg.options) :
            cmsg.options[i].code # 255 =>
                cmsg.options[i].length = Len(cmsg.options[i].value)

(* ---- C29 --------------------------------------------------------------- *)
(* C29: an encoded message has exactly 240 bytes before its options, the   *)
(* magic cookie the last four of them.                                     *)
C29_HeaderIs240Bytes ==
    cstep = "encoded" =>
        /\ Len(NaturalEncode(cmsg)) - Len(OptionsEncode(cmsg.options)) = 240
        /\ SubSeq(wire, 237, 240) = <<99, 130, 83, 99>>

(* ---- C30 --------------------------------------------------------------- *)
(* C30: Decline and Release given a text that is no IPv4 literal fail: no  *)
(* datagram is encoded for the write.                                      *)
C30_InvalidTargetFails ==
    (cin.kind \in {"decline", "release"} /\ To4(ParseIP(cin.addr)) = "nil")
        => wire = <<>>

(* ---- C31 --------------------------------------------------------------- *)
(* the i-th Write of the session was that of a Decline or a Release        *)
DeclineOrReleaseAt(i) ==
    sent[i].type \in {MessageTypeDecline, MessageTypeRelease}

(* C31: once the session has written a Decline or a Release it writes no   *)
(* Discover and no Request and has none built for writing, and its         *)
(* CurrentMessageType is not Discover, whatever datagrams it reads.        *)
C31_DeclineReleaseOneShot ==
    \A i \in 1..Len(sent) :
        DeclineOrReleaseAt(i) =>
            /\ CurrentMessageType # MessageTypeDiscover
            /\ lpc # "write"
            /\ requestMsg = NoMessage
            /\ \A j \in (i + 1)..Len(sent) :
                  sent[j].type \notin {MessageTypeDiscover, MessageTypeRequest}

(* the Decline has gone out, a Nak with the session's TransactionID has    *)
(* been handled and an Offer with it is in the handler's hands             *)
C31_Witness ==
    /\ Len(sent) = 1
    /\ sent[1].type = MessageTypeDecline
    /\ sent[1].ok
    /\ cpc = "wait"
    /\ retry = 1
    /\ lpc = "handle"
    /\ OwnMessage
    /\ inbox.type = MessageTypeOffer

(* ---- C32 --------------------------------------------------------------- *)
(* a message of the given type is built and its Write is the next thing    *)
(* its thread does                                                         *)
WritePending(type) ==
    \/ cpc = "writing" /\ outMsg.type = type
    \/ lpc = "write" /\ requestMsg.type = type

(* C32: CurrentMessageType is Discover, Request, Decline or Release only   *)
(* when a message of that type has been written without error or is being  *)
(* written, and SecondsElapsed is that of a Request only when a Request    *)
(* has been or is being written: after a Write that failed both are what   *)
(* they were before.                                                       *)
C32_StateAdvancesAfterSend ==
    /\ CurrentMessageType \in {MessageTypeDiscover, MessageTypeRequest,
                               MessageTypeDecline, MessageTypeRelease}
          => HasSent(CurrentMessageType) \/ WritePending(CurrentMessageType)
    /\ SecondsElapsed # 0
          => HasSent(MessageTypeRequest) \/ WritePending(MessageTypeRequest)

(* ---- C33 --------------------------------------------------------------- *)
(* C33: the TransactionID NewDHCPRequest has drawn never changes, and      *)
(* every message the session writes, Discover, Request, Decline or         *)
(* Release, has it.                                                        *)
C33_TransactionIDFixed ==
    [][/\ cpc # "start" => TransactionID' = TransactionID
       /\ \A i \in 1..Len(sent') : sent'[i].xid = TransactionID']_vars

(* a Discover and the Request on the Offer have gone out with the          *)
(* session's TransactionID and the Ack has ended the session                *)
C33_Witness ==
    /\ Len(sent) = 2
    /\ sent[1].type = MessageTypeDiscover /\ sent[1].xid = TransactionID
    /\ sent[2].type = MessageTypeRequest /\ sent[2].xid = TransactionID
    /\ TransactionID \in TransactionIDs
    /\ gotOther
    /\ signals = 1

(* ---- C34 --------------------------------------------------------------- *)
(* C34: every message the session builds has the session's hardware        *)
(* address in its client hardware field, the Request built from an Offer   *)
(* too, whatever address the Offer has there.                              *)
C34_OwnHardwareAddress ==
    cstep \in {"built", "encoded"} => cmsg.chaddr = MacBytes(cin.mac)

(* ---- C35 --------------------------------------------------------------- *)
(* the big-endian value of the first n bytes of the slice                  *)
RECURSIVE BigEndian(_, _)
BigEndian(data, n) ==
    IF n = 0 THEN 0 ELSE BigEndian(data, n - 1) * 256 + data[n]

(* C35: on a byte slice of any length, the empty one too, neither          *)
(* conversion faults; BytesToUint32 gives 0 for fewer than 4 bytes and the *)
(* big-endian value of the first 4 otherwise; BytesToUint16 gives the byte *)
(* of a slice of one byte and the big-endian value of a slice of two; and  *)
(* each gives back the value Uint16ToBytes or Uint32ToBytes was given.     *)
C35_ConversionsSafe ==
    cstep = "converted" =>
        /\ cin.kind = "bytes" =>
              /\ ~conv.panic
              /\ Len(cin.data) < 4 => conv.u32 = 0
              /\ Len(cin.data) >= 4 => conv.u32 = BigEndian(cin.data, 4)
              /\ Len(cin.data) = 1 => conv.u16 = cin.data[1]
              /\ Len(cin.data) = 2 => conv.u16 = BigEndian(cin.data, 2)
        /\ cin.kind = "uint16" =>
              /\ Len(conv.bytes) = 2
              /\ conv.u16 = cin.num
        /\ cin.kind = "uint32" =>
              /\ Len(conv.bytes) = 4
              /\ conv.u32 = cin.num

====
